---------------------------- MODULE Spec2Model ----------------------------
(***************************************************************************)
(* A model of src/power.py: the PMIC telemetry parser, the power           *)
(* calculator, the metrics aggregator, the sampling loop and the two       *)
(* consumers (terminal dashboard, plot export) driven from main().         *)
(*                                                                         *)
(* Text is a sequence of one-character strings.  A Python dict is an       *)
(* insertion-ordered sequence of <<key, value>> pairs with distinct keys.  *)
(* A Python float is a non-negative binary floating-point number with      *)
(* round-to-nearest-even after every operation; its value is an integer    *)
(* count of 2^-FracBits and its significand has Precision bits (53 in      *)
(* CPython, narrowed here so that the rounding cases are enumerable).      *)
(* Dict objects live in a heap and are held by reference, as in Python.    *)
(***************************************************************************)
EXTENDS Integers, Sequences, FiniteSets, TLC

VARIABLES
    pc,          \* position of the program (or of the function under study)
    status,      \* "ok", or the exception that ended the run
    output,      \* the telemetry text handed to parse_pmic_output
    currents,    \* dict name -> float
    volts,       \* dict name -> float
    heap,        \* Seq of dicts: object identity of the power maps
    data,        \* list of <<timestamp, reference into heap>>
    metrics,     \* the value calculate_metrics returned last
    evaluated,   \* the metric fields that call evaluated
    now,         \* the wall clock, time.time()
    start_time,  \* measure_consumption's start_time
    duration,    \* measure_consumption's duration
    interval,    \* measure_consumption's interval
    bars         \* the bar ratios the dashboard drew last

vars == <<pc, status, output, currents, volts, heap, data, metrics,
          evaluated, now, start_time, duration, interval, bars>>

----------------------------------------------------------------------------
(* Bounds *)

Precision == 3
FracBits == 1
MaxFields == 2
MaxReadings == 3
MaxClock == 3
MaxSamples == 2

----------------------------------------------------------------------------
(* Python float arithmetic *)

RECURSIVE Pow2(_)
Pow2(n) == IF n = 0 THEN 1 ELSE 2 * Pow2(n - 1)

RECURSIVE Pow10(_)
Pow10(n) == IF n = 0 THEN 1 ELSE 10 * Pow10(n - 1)

\* One float unit: the value 1.0 is Unit counts.
Unit == Pow2(FracBits)

\* num/d rounded to an integer, ties to the even one.
RoundHalfEven(num, d) ==
    LET q == num \div d
        r == num % d
    IN  IF 2 * r < d THEN q
        ELSE IF 2 * r > d THEN q + 1
        ELSE IF q % 2 = 0 THEN q ELSE q + 1

\* The binary exponent at which num/den has a Precision-bit significand.
RECURSIVE FExp(_, _, _)
FExp(num, den, e) ==
    IF num \div (den * Pow2(e)) < Pow2(Precision) THEN e
    ELSE FExp(num, den, e + 1)

\* The float nearest to the rational num/den (in counts), num >= 0, den > 0.
FRound(num, den) ==
    LET e == FExp(num, den, 0)
    IN  RoundHalfEven(num, den * Pow2(e)) * Pow2(e)

FAdd(a, b) == FRound(a + b, 1)
FSub(a, b) == FRound(a - b, 1)
FMul(a, b) == FRound(a * b, Unit)
FDiv(a, b) == FRound(a * Unit, b)
\* float / int, as in sum(total_power) / len(total_power)
FDivInt(a, n) == FRound(a, n)

IsFloat(v) == FRound(v, 1) = v

----------------------------------------------------------------------------
(* Python dict, insertion ordered *)

DictKeys(d) == {d[i][1] : i \in 1..Len(d)}
DictHas(d, k) == \E i \in 1..Len(d) : d[i][1] = k
DictGet(d, k) == d[CHOOSE i \in 1..Len(d) : d[i][1] = k][2]
\* d[k] = v : an existing key keeps its place, a new key goes last
DictSet(d, k, v) ==
    IF DictHas(d, k)
    THEN [i \in 1..Len(d) |-> IF d[i][1] = k THEN <<k, v>> ELSE d[i]]
    ELSE Append(d, <<k, v>>)
IsDict(d) == \A i, j \in 1..Len(d) : d[i][1] = d[j][1] => i = j

\* sum(d.values()): starts from the int 0 and adds in iteration order
RECURSIVE SumValues(_, _)
SumValues(d, n) ==
    IF n = 0 THEN 0 ELSE FAdd(SumValues(d, n - 1), d[n][2])

----------------------------------------------------------------------------
(* Text and the two regular expressions *)

Digits == {"0", "1", "2", "3", "4", "5", "6", "7", "8", "9"}
Letters ==
    {"a", "b", "c", "d", "e", "f", "g", "h", "i", "j", "k", "l", "m",
     "n", "o", "p", "q", "r", "s", "t", "u", "v", "w", "x", "y", "z",
     "A", "B", "C", "D", "E", "F", "G", "H", "I", "J", "K", "L", "M",
     "N", "O", "P", "Q", "R", "S", "T", "U", "V", "W", "X", "Y", "Z"}
\* [A-Za-z0-9_]
WordChars == Letters \cup Digits \cup {"_"}
\* [\d.]
NumChars == Digits \cup {"."}
\* \s
SpaceChars == {" ", "\t", "\n", "\r", "\f"}

DigitVal ==
    ("0" :> 0) @@ ("1" :> 1) @@ ("2" :> 2) @@ ("3" :> 3) @@ ("4" :> 4) @@
    ("5" :> 5) @@ ("6" :> 6) @@ ("7" :> 7) @@ ("8" :> 8) @@ ("9" :> 9)

\* ([A-Za-z0-9_]+)_A current\(\d+\)=([\d.]+)A
CURRENT_REGEX ==
    [lit |-> <<"_", "A", " ", "c", "u", "r", "r", "e", "n", "t", "(">>,
     unit |-> "A"]
\* ([A-Za-z0-9_]+)_V volt\(\d+\)=([\d.]+)V
VOLT_REGEX ==
    [lit |-> <<"_", "V", " ", "v", "o", "l", "t", "(">>,
     unit |-> "V"]

\* re.sub(r"\s+", " ", s)
RECURSIVE CollapseWhitespace(_)
CollapseWhitespace(s) ==
    IF s = <<>> THEN <<>>
    ELSE IF Head(s) \in SpaceChars
         THEN IF Len(s) > 1 /\ s[2] \in SpaceChars
              THEN CollapseWhitespace(Tail(s))
              ELSE <<" ">> \o CollapseWhitespace(Tail(s))
         ELSE <<Head(s)>> \o CollapseWhitespace(Tail(s))

\* The first index >= i of s whose character is not in cls (Len(s)+1 if none).
RECURSIVE RunEnd(_, _, _)
RunEnd(s, i, cls) ==
    IF i > Len(s) \/ s[i] \notin cls THEN i ELSE RunEnd(s, i + 1, cls)

HasLit(s, i, lit) ==
    /\ i + Len(lit) - 1 <= Len(s)
    /\ \A k \in 1..Len(lit) : s[i + k - 1] = lit[k]

\* What follows the name group, from index j:
\*   <lit> \d+ \) = ([\d.]+) <unit>
\* Each repetition is followed by a character outside its class, so the
\* greedy run is the only length that can match.
TailMatch(s, j, re) ==
    LET d0 == j + Len(re.lit)
        dn == RunEnd(s, d0, Digits)
        v0 == dn + 2
        vn == RunEnd(s, v0, NumChars)
    IN  IF /\ HasLit(s, j, re.lit)
           /\ dn > d0
           /\ HasLit(s, dn, <<")", "=">>)
           /\ vn > v0
           /\ vn <= Len(s)
           /\ s[vn] = re.unit
        THEN [ok |-> TRUE, value |-> SubSeq(s, v0, vn - 1), end |-> vn + 1]
        ELSE [ok |-> FALSE, value |-> <<>>, end |-> j]

\* The regular expression tried at index i: the name group is greedy and
\* backtracks, so the longest name that lets the rest match is taken.
MatchAt(s, i, re) ==
    LET run == RunEnd(s, i, WordChars) - i
        lens == {L \in 1..run : TailMatch(s, i + L, re).ok}
    IN  IF lens = {} THEN [ok |-> FALSE, name |-> <<>>, value |-> <<>>, end |-> i]
        ELSE LET L == CHOOSE x \in lens : \A y \in lens : y <= x
                 t == TailMatch(s, i + L, re)
             IN  [ok |-> TRUE, name |-> SubSeq(s, i, i + L - 1),
                  value |-> t.value, end |-> t.end]

\* re.findall from index i: leftmost matches, not overlapping
RECURSIVE FindAll(_, _, _)
FindAll(s, i, re) ==
    IF i > Len(s) THEN <<>>
    ELSE LET m == MatchAt(s, i, re)
         IN  IF m.ok THEN <<<<m.name, m.value>>>> \o FindAll(s, m.end, re)
             ELSE FindAll(s, i + 1, re)

----------------------------------------------------------------------------
(* float(str) on a string of [\d.]+ *)

CountDots(v) == Cardinality({i \in 1..Len(v) : v[i] = "."})
CountDigits(v) == Cardinality({i \in 1..Len(v) : v[i] \in Digits})

\* float() accepts "12", "1.5", "1." and ".5"; it raises ValueError on
\* ".", "1.2.3" and the like.
FloatAccepts(v) == CountDots(v) <= 1 /\ CountDigits(v) >= 1

\* The digits of v read as one integer, the dot ignored.
RECURSIVE DigitsValue(_, _)
DigitsValue(v, n) ==
    IF n = 0 THEN 0
    ELSE IF v[n] = "." THEN DigitsValue(v, n - 1)
    ELSE 10 * DigitsValue(v, n - 1) + DigitVal[v[n]]

\* The number of digits behind the dot.
FracDigits(v) ==
    IF CountDots(v) = 0 THEN 0
    ELSE Len(v) - (CHOOSE i \in 1..Len(v) : v[i] = ".")

PyFloat(v) == FRound(DigitsValue(v, Len(v)) * Unit, Pow10(FracDigits(v)))


----------------------------------------------------------------------------
(* parse_pmic_output and calculate_power *)

\* for name, value in matches: d[name] = float(value)
RECURSIVE FillDict(_, _)
FillDict(matches, n) ==
    IF n = 0 THEN <<>>
    ELSE DictSet(FillDict(matches, n - 1), matches[n][1], PyFloat(matches[n][2]))

\* float(value) raises ValueError on the first value it does not accept.
Rejects(matches) == \E i \in 1..Len(matches) : ~FloatAccepts(matches[i][2])

parse_pmic_output(text) ==
    LET s == CollapseWhitespace(text)
        current_matches == FindAll(s, 1, CURRENT_REGEX)
        volt_matches == FindAll(s, 1, VOLT_REGEX)
    IN  IF Rejects(current_matches) \/ Rejects(volt_matches)
        THEN [status |-> "ValueError", currents |-> <<>>, volts |-> <<>>]
        ELSE [status |-> "ok",
              currents |-> FillDict(current_matches, Len(current_matches)),
              volts |-> FillDict(volt_matches, Len(volt_matches))]

\* A calculator that reads volts.get(component, 0) instead of filtering.
RECURSIVE PowerItemsDefaulting(_, _, _)
PowerItemsDefaulting(c, v, n) ==
    IF n = 0 THEN <<>>
    ELSE Append(PowerItemsDefaulting(c, v, n - 1),
                <<c[n][1],
                  IF DictHas(v, c[n][1]) THEN FMul(c[n][2], DictGet(v, c[n][1]))
                  ELSE 0>>)

calculate_power_defaulting(c, v) == PowerItemsDefaulting(c, v, Len(c))

\* {component: current * volts[component]
\*  for component, current in currents.items() if component in volts}
RECURSIVE PowerItems(_, _, _)
PowerItems(c, v, n) ==
    IF n = 0 THEN <<>>
    ELSE LET rest == PowerItems(c, v, n - 1)
             component == c[n][1]
             current == c[n][2]
         IN  IF DictHas(v, component)
             THEN Append(rest, <<component, FMul(current, DictGet(v, component))>>)
             ELSE rest

calculate_power(c, v) == PowerItems(c, v, Len(c))

----------------------------------------------------------------------------
(* Inputs *)

ComponentNames == {<<"x">>, <<"y">>}
NumTexts == {<<"2">>, <<"1", ".", "5">>, <<"1", ".", "2", ".", "3">>, <<".">>}
WsTexts == {<<" ">>, <<"\n", " ">>}
Amperes == {0, 3, 4}

\* One telemetry field as vcgencmd prints it, e.g. "x_A current(0)=1.5A ".
FieldText(f) ==
    f.name
    \o (IF f.kind = "A" THEN <<"_", "A">> ELSE <<"_", "V">>)
    \o f.ws
    \o (IF f.kind = "A" THEN <<"c", "u", "r", "r", "e", "n", "t">>
        ELSE <<"v", "o", "l", "t">>)
    \o <<"(", "0", ")", "=">> \o f.num \o <<f.kind>> \o f.ws

Fields == [name : ComponentNames, kind : {"A", "V"}, num : NumTexts, ws : WsTexts]

RECURSIVE Render(_, _)
Render(fs, n) == IF n = 0 THEN <<>> ELSE Render(fs, n - 1) \o FieldText(fs[n])

TelemetryTexts ==
    {Render(fs, Len(fs)) : fs \in UNION {[1..n -> Fields] : n \in 0..MaxFields}}

\* Every dict over the keys K with values in V.
Dicts(K, V) ==
    {d \in UNION {[1..n -> K \X V] : n \in 0..Cardinality(K)} : IsDict(d)}

NoMetrics == [kind |-> "none"]

----------------------------------------------------------------------------
(* The parser and the calculator as functions of their arguments *)

InitParse ==
    /\ \/ /\ pc = "parse"
          /\ output \in TelemetryTexts
          /\ currents = <<>>
          /\ volts = <<>>
       \/ /\ pc = "power"
          /\ output = <<>>
          /\ currents \in Dicts(ComponentNames, Amperes)
          /\ volts \in Dicts(ComponentNames, Amperes)
    /\ status = "ok"
    /\ heap = <<>>
    /\ data = <<>>
    /\ metrics = NoMetrics
    /\ evaluated = {}
    /\ now = 0
    /\ start_time = 0
    /\ duration = 0
    /\ interval = 0
    /\ bars = <<>>

ParsePmicOutput ==
    /\ pc = "parse"
    /\ LET r == parse_pmic_output(output)
       IN  /\ status' = r.status
           /\ currents' = r.currents
           /\ volts' = r.volts
           /\ pc' = IF r.status = "ok" THEN "power" ELSE "raised"
    /\ UNCHANGED <<output, heap, data, metrics, evaluated, now, start_time,
                   duration, interval, bars>>

CalculatePower ==
    /\ pc = "power"
    /\ heap' = Append(heap, calculate_power(currents, volts))
    /\ pc' = "powered"
    /\ UNCHANGED <<status, output, currents, volts, data, metrics, evaluated,
                   now, start_time, duration, interval, bars>>

NextParse == ParsePmicOutput \/ CalculatePower

SpecParse == InitParse /\ [][NextParse]_vars

\* C1: parse_pmic_output is total: whatever the text, it returns a pair of
\* dicts and raises nothing.
C1_ParserIsTotal == pc \in {"power", "raised"} => status = "ok"

\* C2: calculate_power returns a dict whose keys are exactly the components
\* present in both arguments, each with the product current * volts; a
\* component of one argument only is left out and raises nothing.
C2_PowerIsJoin ==
    pc = "powered" =>
        LET p == heap[Len(heap)]
        IN  /\ status = "ok"
            /\ IsDict(p)
            /\ DictKeys(p) = DictKeys(currents) \cap DictKeys(volts)
            /\ \A k \in DictKeys(p) :
                   DictGet(p, k) = FMul(DictGet(currents, k), DictGet(volts, k))

\* A component with a current and no voltage was dropped from a result
\* that kept another component.
C2_Witness ==
    /\ pc = "powered"
    /\ DictKeys(currents) \ DictKeys(volts) # {}
    /\ DictKeys(volts) \ DictKeys(currents) = {}
    /\ heap[Len(heap)] # <<>>

----------------------------------------------------------------------------
(* calculate_metrics *)

Last(s) == s[Len(s)]

\* [sum(entry[1].values()) for entry in data]
TotalPower(d, h) == [i \in 1..Len(d) |-> SumValues(h[d[i][2]], Len(h[d[i][2]]))]
\* [entry[0] for entry in data]
Timestamps(d) == [i \in 1..Len(d) |-> d[i][1]]

MinOf(s) == CHOOSE m \in {s[i] : i \in 1..Len(s)} : \A i \in 1..Len(s) : m <= s[i]
MaxOf(s) == CHOOSE m \in {s[i] : i \in 1..Len(s)} : \A i \in 1..Len(s) : m >= s[i]
\* list.index(v): the first position holding v
IndexOf(s, v) == CHOOSE i \in 1..Len(s) : s[i] = v /\ \A j \in 1..(i - 1) : s[j] # v

\* sum(list): starts from the int 0 and adds left to right
RECURSIVE SumList(_, _)
SumList(s, n) == IF n = 0 THEN 0 ELSE FAdd(SumList(s, n - 1), s[n])

\* An integration that weights each interval with the earlier sample.
RECURSIVE EnergyEarlierSample(_, _, _)
EnergyEarlierSample(tp, ts, n) ==
    IF n <= 1 THEN 0
    ELSE FAdd(EnergyEarlierSample(tp, ts, n - 1),
              FMul(tp[n - 1], FSub(ts[n], ts[n - 1])))

\* sum(total_power[i] * (timestamps[i] - timestamps[i - 1])
\*     for i in range(1, len(timestamps)))     over the first n entries
RECURSIVE Energy(_, _, _)
Energy(tp, ts, n) ==
    IF n <= 1 THEN 0
    ELSE FAdd(Energy(tp, ts, n - 1), FMul(tp[n], FSub(ts[n], ts[n - 1])))

\* A max() that keeps the last of several largest entries.
MaxKeyLast(d) ==
    LET i == CHOOSE x \in 1..Len(d) :
                 /\ \A j \in 1..Len(d) : d[j][2] <= d[x][2]
                 /\ \A j \in (x + 1)..Len(d) : d[j][2] < d[x][2]
    IN  d[i][1]

\* max(d, key=d.get) on a dict that is not empty: the first key, in
\* iteration order, whose value no other exceeds
MaxKey(d) ==
    LET i == CHOOSE x \in 1..Len(d) :
                 /\ \A j \in 1..Len(d) : d[j][2] <= d[x][2]
                 /\ \A j \in 1..(x - 1) : d[j][2] < d[x][2]
    IN  d[i][1]

\* sum(total_power) / len(total_power)
Mean(tp) == FDivInt(SumList(tp, Len(tp)), Len(tp))

FieldsBeforeMost ==
    {"min_power", "max_power", "avg_power", "total_energy", "peak_timestamp"}
AllFields == FieldsBeforeMost \cup {"most_consuming_component", "component_power"}

\* The dict display of lines 38-47, evaluated field by field in order.
\* max() of the empty last dict raises ValueError at the sixth field.
ComputeMetrics(d, h) ==
    LET total_power == TotalPower(d, h)
        timestamps == Timestamps(d)
        last == h[Last(d)[2]]
    IN  IF last = <<>>
        THEN [status |-> "ValueError", metrics |-> NoMetrics,
              evaluated |-> FieldsBeforeMost]
        ELSE [status |-> "ok",
              metrics |->
                  [kind |-> "metrics",
                   min_power |-> MinOf(total_power),
                   max_power |-> MaxOf(total_power),
                   avg_power |-> Mean(total_power),
                   total_energy |-> Energy(total_power, timestamps, Len(d)),
                   peak_timestamp |->
                       timestamps[IndexOf(total_power, MaxOf(total_power))],
                   most_consuming_component |-> MaxKey(last),
                   component_power |-> Last(d)[2]],
              evaluated |-> AllFields]

\* calculate_metrics without its "if not data" guard: min([]) raises.
calculate_metrics_unguarded(d, h) ==
    IF d = <<>>
    THEN [status |-> "ValueError", metrics |-> NoMetrics, evaluated |-> {}]
    ELSE ComputeMetrics(d, h)

calculate_metrics(d, h) ==
    IF d = <<>>
    THEN [status |-> "ok", metrics |-> [kind |-> "empty"], evaluated |-> {}]
    ELSE ComputeMetrics(d, h)

----------------------------------------------------------------------------
(* The aggregator as a function of its argument, and what its caller may do
   with the value it returned *)

Watts == {0, 6}
TimeValues == {0, 3, 4}
\* The values a caller stores into a dict it holds.
StoredValues == {2}

PowerMaps == Dicts(ComponentNames, Watts)

InitMetrics ==
    /\ pc = "call"
    /\ status = "ok"
    /\ output = <<>>
    /\ currents = <<>>
    /\ volts = <<>>
    /\ \E n \in 0..MaxReadings :
          /\ heap \in [1..n -> PowerMaps]
          /\ \E ts \in [1..n -> TimeValues] :
                /\ \A i \in 1..(n - 1) : ts[i] <= ts[i + 1]
                /\ data = [i \in 1..n |-> <<ts[i], i>>]
    /\ metrics = NoMetrics
    /\ evaluated = {}
    /\ now = 0
    /\ start_time = 0
    /\ duration = 0
    /\ interval = 0
    /\ bars = <<>>

\* metrics = calculate_metrics(data)
CalculateMetrics ==
    /\ pc = "call"
    /\ LET r == calculate_metrics(data, heap)
       IN  /\ status' = r.status
           /\ metrics' = r.metrics
           /\ evaluated' = r.evaluated
           /\ pc' = IF r.status = "ok" THEN "returned" ELSE "raised"
    /\ UNCHANGED <<output, currents, volts, heap, data, now, start_time,
                   duration, interval, bars>>

\* The caller stores into the dict it got back:
\* metrics["component_power"][k] = v
ModifyReturned ==
    /\ pc = "returned"
    /\ metrics.kind = "metrics"
    /\ \E k \in ComponentNames, v \in StoredValues :
          heap' = [heap EXCEPT ![metrics.component_power] = DictSet(@, k, v)]
    /\ pc' = "modified"
    /\ UNCHANGED <<status, output, currents, volts, data, metrics, evaluated,
                   now, start_time, duration, interval, bars>>

\* The owner of the series stores into its last reading:
\* data[-1][1][k] = v
ModifyReading ==
    /\ pc = "returned"
    /\ metrics.kind = "metrics"
    /\ \E k \in ComponentNames, v \in StoredValues :
          heap' = [heap EXCEPT ![Last(data)[2]] = DictSet(@, k, v)]
    /\ pc' = "modified"
    /\ UNCHANGED <<status, output, currents, volts, data, metrics, evaluated,
                   now, start_time, duration, interval, bars>>

NextMetrics == CalculateMetrics \/ ModifyReturned \/ ModifyReading

SpecMetrics == InitMetrics /\ [][NextMetrics]_vars

\* The call of calculate_metrics has ended, one way or the other.
Called == pc \in {"returned", "raised"}

\* The dict of the last reading.
LastMap == heap[Last(data)[2]]

\* C3: on the empty series calculate_metrics returns the empty marker, a
\* dict with none of the seven fields, raises nothing and evaluates no
\* field.
C3_EmptySeries ==
    (Called /\ data = <<>>) =>
        /\ status = "ok"
        /\ metrics = [kind |-> "empty"]
        /\ evaluated = {}

C3_Witness == pc = "returned" /\ data = <<>>

\* C4: on every series that is not empty calculate_metrics returns a
\* Metrics value with all seven fields and raises nothing, also when the
\* last reading's dict is empty.
C4_NonEmptyNeverRaises ==
    (Called /\ data # <<>>) =>
        /\ status = "ok"
        /\ metrics.kind = "metrics"
        /\ evaluated = AllFields

\* C5: total_energy is the sum, over every reading but the first, of that
\* reading's total power times the time since the reading before it, the
\* terms formed and added in index order; for one reading it is 0.
C5_EnergyIsLaterSampleSum ==
    (pc = "returned" /\ data # <<>>) =>
        LET n == Len(data)
            total(i) == SumValues(heap[data[i][2]], Len(heap[data[i][2]]))
            S[k \in 1..n] ==
                IF k = 1 THEN 0
                ELSE FAdd(S[k - 1],
                          FMul(total(k), FSub(data[k][1], data[k - 1][1])))
        IN  /\ metrics.total_energy = S[n]
            /\ n = 1 => metrics.total_energy = 0

\* Three readings whose powers differ, over intervals that are not empty.
C5_Witness ==
    /\ pc = "returned"
    /\ Len(data) = 3
    /\ data[1][1] < data[2][1]
    /\ data[2][1] < data[3][1]
    /\ SumValues(heap[1], Len(heap[1])) > SumValues(heap[3], Len(heap[3]))
    /\ metrics.total_energy > 0

\* C6: for every series that is not empty, min_power <= avg_power <=
\* max_power.
C6_AvgBetweenMinAndMax ==
    (pc = "returned" /\ data # <<>>) =>
        /\ metrics.min_power <= metrics.avg_power
        /\ metrics.avg_power <= metrics.max_power

\* C7: most_consuming_component is a key of the last reading's dict, no
\* value of that dict exceeds its value, and every key before it in
\* insertion order has a smaller value.
C7_MostConsumingIsFirstLargest ==
    (pc = "returned" /\ data # <<>>) =>
        LET m == metrics.most_consuming_component
        IN  \E i \in 1..Len(LastMap) :
                /\ LastMap[i][1] = m
                /\ \A j \in 1..Len(LastMap) : LastMap[j][2] <= LastMap[i][2]
                /\ \A j \in 1..(i - 1) : LastMap[j][2] < LastMap[i][2]

\* Two components tie in the last reading, and the reading before it has
\* one largest component, the other one.
C7_Witness ==
    /\ pc = "returned"
    /\ Len(data) >= 2
    /\ Len(LastMap) = 2
    /\ LastMap[1][2] = LastMap[2][2]
    /\ LastMap[1][2] > 0
    /\ metrics.most_consuming_component = LastMap[1][1]
    /\ LET before == heap[data[Len(data) - 1][2]]
       IN  /\ Len(before) = 2
           /\ before[1][2] < before[2][2]
           /\ before[2][1] = LastMap[2][1]

\* C8: component_power is a copy of the last reading's dict: equal to it
\* when calculate_metrics returns, untouched by a later store into the
\* reading, and a later store into it leaves the reading untouched.
C8_ComponentPowerIsCopy ==
    /\ [](pc = "returned" /\ metrics.kind = "metrics"
            => heap[metrics.component_power] = LastMap)
    /\ [][ModifyReturned => LastMap' = LastMap]_vars
    /\ [][ModifyReading =>
            heap'[metrics.component_power] = heap[metrics.component_power]]_vars

----------------------------------------------------------------------------
(* The program: main, measure_consumption, the dashboard and the export *)

\* What "vcgencmd pmic_read_adc" may print in one sampling cycle: nothing,
\* one rail at 1.5 A and 2 V, one rail at 0 A, two rails, a damaged number.
Rail(name, amps, volt) ==
    <<[name |-> name, kind |-> "A", num |-> amps, ws |-> <<" ">>],
      [name |-> name, kind |-> "V", num |-> volt, ws |-> <<"\n">>]>>

SampleTexts ==
    {Render(fs, Len(fs)) : fs \in
        {<<>>,
         Rail(<<"x">>, <<"1", ".", "5">>, <<"2">>),
         Rail(<<"x">>, <<"0">>, <<"2">>),
         Rail(<<"x">>, <<"2">>, <<"2">>) \o Rail(<<"y">>, <<"2">>, <<"2">>),
         Rail(<<"x">>, <<"1", ".", "2", ".", "3">>, <<"2">>)}}

ClockValues == {t \in 0..MaxClock : IsFloat(t)}
Later(t) == {u \in ClockValues : u >= t}
Durations == {0, 2}
Intervals == {0, 1}

\* A list that takes its new element in front.
list_insert_front(d, r) == <<r>> \o d

\* data.append(r)
list_append(d, r) == Append(d, r)

Init ==
    /\ pc = "main"
    /\ status = "ok"
    /\ output = <<>>
    /\ currents = <<>>
    /\ volts = <<>>
    /\ heap = <<>>
    /\ data = <<>>
    /\ metrics = NoMetrics
    /\ evaluated = {}
    /\ now = 0
    /\ start_time = 0
    /\ duration \in Durations
    /\ interval \in Intervals
    /\ bars = <<>>

\* data = []; start_time = time.time()
StartMeasure ==
    /\ pc = "main"
    /\ \E t \in Later(now) :
          /\ start_time' = t
          /\ now' = t
    /\ data' = <<>>
    /\ pc' = "while"
    /\ UNCHANGED <<status, output, currents, volts, heap, metrics, evaluated,
                   duration, interval, bars>>

\* One turn of the while loop: the test holds at time t1, the telemetry is
\* read, parsed and turned into power, the reading is appended at time t2
\* and sleep(interval) returns at time t3.  float() may raise in the parser.
Sample ==
    /\ pc = "while"
    /\ Len(data) < MaxSamples
    /\ \E t1 \in Later(now), text \in SampleTexts :
          /\ FSub(t1, start_time) < duration
          /\ output' = text
          /\ LET r == parse_pmic_output(text)
             IN  /\ status' = r.status
                 /\ currents' = r.currents
                 /\ volts' = r.volts
                 /\ IF r.status = "ok"
                    THEN \E t2 \in Later(t1) :
                            /\ heap' = Append(heap, calculate_power(r.currents, r.volts))
                            /\ data' = list_append(data, <<FSub(t2, start_time), Len(heap) + 1>>)
                            /\ \E t3 \in Later(t2 + interval) : now' = t3
                            /\ pc' = "while"
                    ELSE /\ now' = t1
                         /\ pc' = "crashed"
                         /\ UNCHANGED <<heap, data>>
    /\ UNCHANGED <<metrics, evaluated, start_time, duration, interval, bars>>

\* The while test fails at time t1: return data
EndMeasure ==
    /\ pc = "while"
    /\ \E t1 \in Later(now) :
          /\ ~(FSub(t1, start_time) < duration)
          /\ now' = t1
    /\ pc' = "menu"
    /\ UNCHANGED <<status, output, currents, volts, heap, data, metrics,
                   evaluated, start_time, duration, interval, bars>>

\* Lines 101-106 of draw(): the ratio power / max_power of every bar.
\* max_power falls back to 1 for an empty list only; a float division by
\* 0 raises ZeroDivisionError.
DrawBars(d, h) ==
    LET total_power == TotalPower(d, h)
        max_power == IF total_power # <<>> THEN MaxOf(total_power) ELSE 1
    IN  IF max_power = 0
        THEN [status |-> "ZeroDivisionError", bars |-> <<>>]
        ELSE [status |-> "ok",
              bars |-> [i \in 1..Len(d) |-> FDiv(total_power[i], max_power)]]

\* Choice 1, display_terminal_interface(data): calculate_metrics, then
\* draw() up to its getch(), or up to its endless "No data available" loop.
Display ==
    /\ pc = "menu"
    /\ LET r == calculate_metrics(data, heap)
           b == DrawBars(data, heap)
       IN  /\ evaluated' = r.evaluated
           /\ metrics' = r.metrics
           /\ IF r.status # "ok"
              THEN status' = r.status /\ pc' = "crashed" /\ bars' = bars
              ELSE IF data = <<>>
              THEN status' = "ok" /\ pc' = "no_data" /\ bars' = bars
              ELSE IF b.status # "ok"
              THEN status' = b.status /\ pc' = "crashed" /\ bars' = bars
              ELSE status' = "ok" /\ pc' = "view" /\ bars' = b.bars
    /\ UNCHANGED <<output, currents, volts, heap, data, now, start_time,
                   duration, interval>>

\* getch() returns 'q': back to the menu
KeyQuit ==
    /\ pc = "view"
    /\ pc' = "menu"
    /\ UNCHANGED <<status, output, currents, volts, heap, data, metrics,
                   evaluated, now, start_time, duration, interval, bars>>

\* Choice 2, export_plot(data, filename)
Export ==
    /\ pc = "menu"
    /\ IF data = <<>>
       THEN UNCHANGED <<pc, status, metrics, evaluated>>
       ELSE LET r == calculate_metrics(data, heap)
            IN  /\ evaluated' = r.evaluated
                /\ metrics' = r.metrics
                /\ status' = r.status
                /\ pc' = IF r.status = "ok" THEN "menu" ELSE "crashed"
    /\ UNCHANGED <<output, currents, volts, heap, data, now, start_time,
                   duration, interval, bars>>

\* Choice 3
Exit ==
    /\ pc = "menu"
    /\ pc' = "exited"
    /\ UNCHANGED <<status, output, currents, volts, heap, data, metrics,
                   evaluated, now, start_time, duration, interval, bars>>

Next == StartMeasure \/ Sample \/ EndMeasure \/ Display \/ KeyQuit \/ Export \/ Exit

Spec == Init /\ [][Next]_vars

\* One step of the sampling loop put exactly one reading at the end of the
\* series and left the earlier readings, and their dicts, as they were.
AppendedOne ==
    /\ Len(data') = Len(data) + 1
    /\ SubSeq(data', 1, Len(data)) = data
    /\ \A i \in 1..Len(data) : heap'[data[i][2]] = heap[data[i][2]]

\* Every step is a completed loop iteration that appended one reading, or
\* leaves the series alone.
AppendOnly ==
    IF Sample /\ pc' = "while" THEN AppendedOne ELSE data' = data

\* C9 (as amended): while measure_consumption runs, for any duration, any
\* interval >= 0 and any non-decreasing clock, the series is append-only
\* and its timestamps never decrease from one reading to the next.
C9_AppendOnlyNonDecreasing ==
    /\ [](\A i \in 1..(Len(data) - 1) : data[i][1] <= data[i + 1][1])
    /\ [][AppendOnly]_vars

\* With interval 0 the clock stood still between two appends.
C9_Witness ==
    /\ interval = 0
    /\ Len(data) >= 2
    /\ data[1][1] = data[2][1]
    /\ heap[data[1][2]] # heap[data[2][2]]

\* C9: while measure_consumption runs, for any duration, any interval >= 0
\* and any non-decreasing clock, the series is append-only and its
\* timestamps strictly increase from one reading to the next.
C9_AppendOnlyStrictlyIncreasing ==
    /\ [](\A i \in 1..(Len(data) - 1) : data[i][1] < data[i + 1][1])
    /\ [][AppendOnly]_vars

\* C10: the dashboard guards against max_power = 0: on a series that is
\* not empty and whose readings all have total power 0 it divides by no
\* max_power and ends in no division-by-zero error.
C10_DashboardGuardsZeroMax ==
    (/\ data # <<>>
     /\ \A i \in 1..Len(data) : TotalPower(data, heap)[i] = 0)
        => status # "ZeroDivisionError"

============================================================================
